---- MODULE Spec2Model ----
(***************************************************************************)
(* The CardSightAI SDK client: construction (credential and option         *)
(* resolution), the request middleware (onRequest / onResponse) with its   *)
(* timeout timers and the timeoutCleanups registry, and the translation of *)
(* failing responses into CardSightAIError.                                *)
(*                                                                         *)
(* The repository holds two revisions of the client: src/src/client.ts     *)
(* (release 1.0.1) and src/unnamed/part_000 (the current one).  The        *)
(* variable rev says which of them a behaviour runs.                       *)
(***************************************************************************)
EXTENDS Integers, Sequences, FiniteSets, TLC

VARIABLES env, rev, utils, arg, ctor, ctorError, config, client, req, timers, timeoutCleanups

vars == <<env, rev, utils, arg, ctor, ctorError, config, client, req, timers, timeoutCleanups>>

(***************************************************************************)
(* Bounds.                                                                 *)
(***************************************************************************)
MaxRequests == 2

\* The most invocations of one hook with one options object.
MaxHookCalls == 2

\* The longest detections array of an identification result.
MaxDetections == 2

\* The longest parallels array of a catalog card.
MaxParallels == 2

ReqIds == 1..MaxRequests

(***************************************************************************)
(* Optional values: an absent (undefined) value is the empty set, a        *)
(* present one a singleton.                                                *)
(***************************************************************************)
None == {}

Some(v) == {v}

Val(o) == CHOOSE v \in o : TRUE

\* JavaScript truthiness of an optional string / an optional number.
TruthyStr(o) == o # None /\ o # Some("")

TruthyNum(o) == o # None /\ o # Some(0)

\* a || b for optional strings and optional numbers.
OrStr(a, b) == IF TruthyStr(a) THEN a ELSE b

OrNum(a, b) == IF TruthyNum(a) THEN a ELSE b

(***************************************************************************)
(* Headers: a function from lower-cased header names to values (a Headers  *)
(* object compares names case-insensitively and keeps one value per name). *)
(***************************************************************************)
NoHeaders == [n \in {} |-> ""]

Hdr(n, v) == [x \in {n} |-> v]

\* Later sources win, as in an object spread or Headers.set.
MergeHeaders(a, b) ==
  [n \in (DOMAIN a) \cup (DOMAIN b) |-> IF n \in DOMAIN b THEN b[n] ELSE a[n]]

HasHeader(h, n) == n \in DOMAIN h

JsonType == "application/json"

MultipartType == "multipart/form-data; boundary=X"

(***************************************************************************)
(* Decimal formatting of a number inside a template string.                *)
(***************************************************************************)
Digit(d) ==
  CASE d = 0 -> "0" [] d = 1 -> "1" [] d = 2 -> "2" [] d = 3 -> "3"
    [] d = 4 -> "4" [] d = 5 -> "5" [] d = 6 -> "6" [] d = 7 -> "7"
    [] d = 8 -> "8" [] d = 9 -> "9"

RECURSIVE NumToString(_)
NumToString(n) ==
  IF n < 10 THEN Digit(n) ELSE NumToString(n \div 10) \o Digit(n % 10)

(***************************************************************************)
(* Construction.                                                           *)
(***************************************************************************)
DefaultTimeout == 30000

NoConfig == [apiKey |-> "", timeout |-> 0, headers |-> NoHeaders]

NoClient == [created |-> FALSE, headers |-> NoHeaders]

\* Variant: the environment variable wins over the configured key.
ResolveApiKey_EnvFirst(c, e) == OrStr(e, c.apiKey)

\* const apiKey = config?.apiKey || process.env.CARDSIGHTAI_API_KEY
ResolveApiKey(c, e) == OrStr(c.apiKey, e)

\* this.config = { apiKey, baseUrl, fetch, timeout, headers }
ResolveConfig(c, apiKey) ==
  [apiKey  |-> apiKey,
   timeout |-> Val(OrNum(c.timeout, Some(DefaultTimeout))),
   headers |-> IF c.headers # None THEN Val(c.headers) ELSE NoHeaders]

\* The headers option handed to createClient.
ClientHeaders(rv, cfg) ==
  IF rv = "part_000"
    THEN MergeHeaders(Hdr("x-api-key", cfg.apiKey), cfg.headers)
    ELSE MergeHeaders(MergeHeaders(Hdr("x-api-key", cfg.apiKey),
                                   Hdr("content-type", JsonType)),
                      cfg.headers)

\* No exception.
NoError ==
  [name |-> "", message |-> "", status |-> None, response |-> None,
   request |-> None]

\* new AuthenticationError(): super(message) with no status, response or
\* request, then name = 'AuthenticationError'.
AuthenticationError ==
  [name     |-> "AuthenticationError",
   message  |-> "API key is required. Set it via init() or CARDSIGHTAI_API_KEY environment variable",
   status   |-> None,
   response |-> None,
   request  |-> None]

\* The state of an endpoint call that has not been made.
IdleRequest ==
  [pc |-> "idle", endpoint |-> "", method |-> "", url |-> "", body |-> "none",
   input |-> NoHeaders, headers |-> NoHeaders, signal |-> 0,
   outcome |-> "none", error |-> NoError,
   response |-> [status |-> 0, body |-> [k |-> "none"], redirect |-> None,
                 bodyUsed |-> FALSE],
   returned |-> [status |-> 0, body |-> [k |-> "none"], redirect |-> None,
                 bodyUsed |-> FALSE],
   original |-> [headers |-> NoHeaders, signal |-> 0], thrown |-> NoError,
   fetches |-> 0, query |-> None, parseAs |-> "", read |-> "none",
   data |-> [k |-> "none"], responses |-> 0]

\* Variant: only an undefined key counts as missing.
MissingKey_UndefinedOnly(apiKey) == apiKey = None

\* if (!apiKey)
MissingKey(apiKey) == ~TruthyStr(apiKey)

\* Variant: a successful construction probes the API once.
Construct_Eager(c) ==
  /\ ctor = "none"
  /\ arg' = Some(c)
  /\ LET apiKey == ResolveApiKey(c, env) IN
       IF MissingKey(apiKey)
         THEN /\ ctor' = "AuthenticationError"
              /\ ctorError' = AuthenticationError
              /\ UNCHANGED <<config, client, req>>
         ELSE /\ ctor' = "ok"
              /\ ctorError' = NoError
              /\ config' = ResolveConfig(c, Val(apiKey))
              /\ client' = [created |-> TRUE,
                            headers |-> ClientHeaders(rev, config')]
              /\ req' = [req EXCEPT ![1] = [@ EXCEPT !.fetches = 1]]
  /\ UNCHANGED <<env, rev, utils, timers, timeoutCleanups>>

\* new CardSightAI(c) / init(c): throws AuthenticationError, or stores the
\* configuration, creates the openapi-fetch client and registers the
\* middleware; no request is made and no timer armed.
Construct(c) ==
  /\ ctor = "none"
  /\ arg' = Some(c)
  /\ LET apiKey == ResolveApiKey(c, env) IN
       IF MissingKey(apiKey)
         THEN /\ ctor' = "AuthenticationError"
              /\ ctorError' = AuthenticationError
              /\ UNCHANGED <<config, client>>
         ELSE /\ ctor' = "ok"
              /\ ctorError' = NoError
              /\ config' = ResolveConfig(c, Val(apiKey))
              /\ client' = [created |-> TRUE,
                            headers |-> ClientHeaders(rev, config')]
  /\ UNCHANGED <<env, rev, utils, req, timers, timeoutCleanups>>

(***************************************************************************)
(* Requests, responses and errors.                                         *)
(***************************************************************************)
NoResponse ==
  [status |-> 0, body |-> [k |-> "none"], redirect |-> None,
   bodyUsed |-> FALSE]

\* Variant: only server errors count as failures.
Ok_Below500(resp) == resp.status >= 200 /\ resp.status <= 499

\* response.ok
Ok(resp) == resp.status >= 200 /\ resp.status <= 299

\* The headers of the Request the request library builds for an endpoint
\* call: a JSON Content-Type default for a serialized body, then the client
\* headers; a FormData body without a Content-Type gets the multipart one
\* from the body encoder.
RequestHeaders(body, clientHeaders) ==
  LET defaults == IF body = "json" THEN Hdr("content-type", JsonType)
                                   ELSE NoHeaders
      merged   == MergeHeaders(defaults, clientHeaders)
  IN IF body = "formdata" /\ ~HasHeader(merged, "content-type")
       THEN MergeHeaders(merged, Hdr("content-type", MultipartType))
       ELSE merged

(***************************************************************************)
(* onRequest.                                                              *)
(***************************************************************************)
\* Variant: Content-Type is defaulted whatever the method.
onRequestHeaders_AnyMethod(rv, isFormData, method, headers) ==
  IF rv = "part_000" /\ ~isFormData /\ ~HasHeader(headers, "content-type")
    THEN MergeHeaders(headers, Hdr("content-type", JsonType))
    ELSE headers

\* The headers of the request onRequest returns.
onRequestHeaders(rv, isFormData, method, headers) ==
  IF rv = "part_000"
    THEN IF ~isFormData /\ ~HasHeader(headers, "content-type")
            /\ method # "GET" /\ method # "HEAD"
           THEN MergeHeaders(headers, Hdr("content-type", JsonType))
           ELSE headers
    ELSE headers

\* Variant: Content-Type is set on the headers of the request received.
onRequestOriginal_InPlace(rv, isFormData, method, headers) ==
  [headers |-> onRequestHeaders(rv, isFormData, method, headers), signal |-> 0]

\* The request onRequest received, after the hook: the hook works on a copy
\* of its headers (new Headers(request.headers)) and builds a new Request, so
\* the headers are as received and no signal of the hook is attached to it.
onRequestOriginal(rv, isFormData, method, headers) ==
  [headers |-> headers, signal |-> 0]

\* if (config.timeout)
ArmsTimer(cfg) == cfg.timeout # 0

\* Whether the revision has the endpoint method: client.ts has no images
\* namespace.
Available(rv, e) == e.name = "images.getCard" => rv = "part_000"

\* Variant: every call is handed the same options object.
OptionsOf_Shared(r) == 1

\* The options object handed to both hooks of call r, the key of the
\* registry: a fresh object per call, named by the call.
OptionsOf(r) == r

\* A registry entry: the closure () => clearTimeout(timeoutId), named by the
\* timer it clears; NoCleanup is the absence of an entry.
Cleanup(r, i) == [req |-> r, timer |-> i]

NoCleanup == [req |-> 0, timer |-> 0]

ArmedTimer == [st |-> "armed", cleanups |-> 0]

\* An endpoint method call up to the transport call: the request is built,
\* onRequest runs, the returned request goes to fetch.  optBody says whether
\* the options object the middleware receives exposes the request body.
Call(r, e, optBody) ==
  /\ ctor = "ok"
  /\ client.created
  /\ Available(rev, e)
  /\ req[r].pc = "idle"
  /\ LET input      == RequestHeaders(e.body, client.headers)
         isFormData == optBody /\ e.body = "formdata"
         headers    == onRequestHeaders(rev, isFormData, e.method, input)
         arm        == ArmsTimer(config)
         timerId    == Len(timers[r]) + 1
     IN /\ req' = [req EXCEPT ![r] =
                     [@ EXCEPT !.pc = "inflight", !.endpoint = e.name,
                               !.method = e.method, !.url = e.path,
                               !.query = e.query, !.parseAs = e.parseAs,
                               !.body = e.body, !.fetches = @ + 1,
                               !.input = input, !.headers = headers,
                               !.original = onRequestOriginal(rev, isFormData,
                                                              e.method, input),
                               !.signal = IF arm THEN timerId ELSE 0]]
        /\ timers' = IF arm
                       THEN [timers EXCEPT ![r] = Append(@, ArmedTimer)]
                       ELSE timers
        /\ timeoutCleanups' = IF arm
                                THEN [timeoutCleanups EXCEPT
                                        ![OptionsOf(r)] = Cleanup(r, timerId)]
                                ELSE timeoutCleanups
  /\ UNCHANGED <<env, rev, utils, arg, ctor, ctorError, config, client>>

\* signal.aborted of the request sent for r
Aborted(r) ==
  /\ req[r].signal # 0
  /\ timers[r][req[r].signal].st = "fired"

(***************************************************************************)
(* Timers and the transport.                                               *)
(***************************************************************************)
\* Variant: the timer callback does not abort the controller.
FireTimer_NoAbort(t) == t

\* The setTimeout callback: controller.abort()
FireTimer(t) == [t EXCEPT !.st = "fired"]

\* Variant: the closure runs but leaves the timer armed.
ClearTimer_StillArmed(t) == [t EXCEPT !.cleanups = @ + 1]

\* The cleanup closure: clearTimeout(timeoutId)
ClearTimer(t) ==
  [t EXCEPT !.st = IF @ = "armed" THEN "cleared" ELSE @,
            !.cleanups = @ + 1]

TimerFire(r, i) ==
  /\ i \in DOMAIN timers[r]
  /\ timers[r][i].st = "armed"
  /\ timers' = [timers EXCEPT ![r][i] = FireTimer(@)]
  /\ UNCHANGED <<env, rev, utils, arg, ctor, ctorError, config, client, req, timeoutCleanups>>

AbortError == [NoError EXCEPT !.name = "AbortError",
                              !.message = "This operation was aborted"]

NetworkError == [NoError EXCEPT !.name = "TypeError",
                                !.message = "fetch failed"]

\* Variant: the middleware wraps what fetch threw in a CardSightAIError.
Rethrow_Wrapped(e) == [e EXCEPT !.name = "CardSightAIError"]

\* What the caller of the endpoint method catches when fetch threw e: the
\* middleware registers onRequest and onResponse only, nothing handles or
\* replaces the exception.
Rethrow(e) == e

\* fetch rejects because the signal was aborted; the rejection reaches the
\* caller, no hook runs.
TransportAbort(r) ==
  /\ req[r].pc = "inflight"
  /\ Aborted(r)
  /\ req' = [req EXCEPT ![r] = [@ EXCEPT !.pc = "done",
                                         !.outcome = "rejected",
                                         !.thrown = AbortError,
                                         !.error = Rethrow(AbortError)]]
  /\ UNCHANGED <<env, rev, utils, arg, ctor, ctorError, config, client, timers, timeoutCleanups>>

\* Variant: a network failure is retried once.
TransportFail_Retry(r) ==
  /\ req[r].pc = "inflight"
  /\ ~Aborted(r)
  /\ req' = [req EXCEPT ![r] =
               IF @.fetches < 2
                 THEN [@ EXCEPT !.fetches = @ + 1]
                 ELSE [@ EXCEPT !.pc = "done",
                                !.outcome = "rejected",
                                !.thrown = NetworkError,
                                !.error = Rethrow(NetworkError)]]
  /\ UNCHANGED <<env, rev, utils, arg, ctor, ctorError, config, client, timers, timeoutCleanups>>

\* fetch rejects with a network failure; the rejection reaches the caller,
\* no hook runs.
TransportFail(r) ==
  /\ req[r].pc = "inflight"
  /\ ~Aborted(r)
  /\ req' = [req EXCEPT ![r] = [@ EXCEPT !.pc = "done",
                                         !.outcome = "rejected",
                                         !.thrown = NetworkError,
                                         !.error = Rethrow(NetworkError)]]
  /\ UNCHANGED <<env, rev, utils, arg, ctor, ctorError, config, client, timers, timeoutCleanups>>

\* The options object of a finished call is unreachable: the WeakMap may
\* drop its entry (the closure is dropped, not invoked).
CollectGarbage(r) ==
  /\ req[r].pc = "done"
  /\ timeoutCleanups[OptionsOf(r)] # NoCleanup
  /\ timeoutCleanups' = [timeoutCleanups EXCEPT ![OptionsOf(r)] = NoCleanup]
  /\ UNCHANGED <<env, rev, utils, arg, ctor, ctorError, config, client, req, timers>>

(***************************************************************************)
(* JSON values of a response body: null, a string, a number, or an object  *)
(* (a function from field names to such values).                           *)
(***************************************************************************)
JNull == [t |-> "null"]

JStr(s) == [t |-> "str", s |-> s]

JNum(n) == [t |-> "num", n |-> n]

JObj(f) == [t |-> "obj", f |-> f]

NoFields == [n \in {} |-> JNull]

\* responseData?.message, responseData?.error: undefined unless the value
\* is an object with that field.
Field(d, name) ==
  IF d.t = "obj" /\ name \in DOMAIN d.f THEN Some(d.f[name]) ELSE None

\* JavaScript truthiness of an optional JSON value.
TruthyJson(o) ==
  /\ o # None
  /\ LET v == Val(o) IN
       CASE v.t = "null" -> FALSE
         [] v.t = "str"  -> v.s # ""
         [] v.t = "num"  -> v.n # 0
         [] v.t = "obj"  -> TRUE

\* Whether String(v) returns: an object with an own toString field (never a
\* function in parsed JSON) has no usable toString, its inherited valueOf
\* returns the object itself, and the conversion throws a TypeError.
Converts(v) == ~(v.t = "obj" /\ "toString" \in DOMAIN v.f)

\* The string the Error constructor makes of its message argument.
JsonToString(v) ==
  CASE v.t = "null" -> "null"
    [] v.t = "str"  -> v.s
    [] v.t = "num"  -> NumToString(v.n)
    [] v.t = "obj"  -> "[object Object]"

(***************************************************************************)
(* onResponse.                                                             *)
(***************************************************************************)
\* `API request failed with status ${response.status}`
GenericMessage(status) == "API request failed with status " \o NumToString(status)

\* Variant: the error field is preferred over the message field.
JsonMessage_ErrorFirst(d, generic) ==
  IF TruthyJson(Field(d, "error")) THEN JsonToString(Val(Field(d, "error")))
  ELSE IF TruthyJson(Field(d, "message")) THEN JsonToString(Val(Field(d, "message")))
  ELSE generic

\* The message chosen from a body that parsed as JSON.
JsonMessage(d, generic) ==
  IF TruthyJson(Field(d, "message")) THEN JsonToString(Val(Field(d, "message")))
  ELSE IF TruthyJson(Field(d, "error")) THEN JsonToString(Val(Field(d, "error")))
  ELSE generic

\* Variant: the text of a non-JSON body is not used.
TextMessage_Dropped(text, generic) == generic

\* The message chosen from a body that did not parse as JSON but was read
\* as text.
TextMessage(text, generic) == IF text # "" THEN text ELSE generic

\* errorMessage after the try/catch ladder.
ErrorMessage(resp) ==
  LET generic == GenericMessage(resp.status) IN
    CASE resp.body.k = "json" -> JsonMessage(resp.body.v, generic)
      [] resp.body.k = "text" -> TextMessage(resp.body.s, generic)
      [] OTHER                -> generic

\* responseData after the try/catch ladder.
ResponseData(resp) ==
  IF resp.body.k = "json" THEN Some(resp.body.v) ELSE None

\* Whether super(message) returns for the errorMessage chosen from resp.
MessageConverts(resp) ==
  resp.body.k = "json" =>
    LET fm == Field(resp.body.v, "message")
        fe == Field(resp.body.v, "error")
    IN IF TruthyJson(fm) THEN Converts(Val(fm))
       ELSE IF TruthyJson(fe) THEN Converts(Val(fe))
       ELSE TRUE

\* The TypeError of a failed string conversion.
ConversionError ==
  [NoError EXCEPT !.name = "TypeError",
                  !.message = "Cannot convert object to primitive value"]

\* new CardSightAIError(errorMessage, response.status, responseData, {...})
\* response.url: the URL the response came from, which is the URL of the
\* request unless the transport followed a redirect.
ResponseUrl(resp, request) ==
  IF resp.redirect = None THEN request.url ELSE Val(resp.redirect)

CardSightAIError(resp, request) ==
  [name     |-> "CardSightAIError",
   message  |-> ErrorMessage(resp),
   status   |-> Some(resp.status),
   response |-> ResponseData(resp),
   request  |-> Some([url     |-> ResponseUrl(resp, request),
                      method  |-> request.method,
                      headers |-> request.headers])]

\* What the failing branch of onResponse throws: the CardSightAIError, or
\* the TypeError raised while constructing it.
Thrown(resp, request) ==
  IF MessageConverts(resp) THEN CardSightAIError(resp, request)
                           ELSE ConversionError

\* Variant: the hook reads the body of the response before returning it.
Returned_Read(resp) == [resp EXCEPT !.bodyUsed = TRUE]

\* return response: the response received, whose body the hook has not
\* read (the failing branch reads clones only).
Returned(resp) == resp

\* The outcome of the endpoint call once onResponse has run.
Settle(q, resp) ==
  IF ~Ok(resp)
    THEN [q EXCEPT !.pc = "done", !.outcome = "rejected", !.response = resp,
                   !.error = Thrown(resp, q)]
    ELSE [q EXCEPT !.pc = "done", !.outcome = "resolved", !.response = resp,
                   !.returned = Returned(resp), !.read = "pending"]

\* Variant: the entry stays in the registry after its closure has run.
Deleted_Kept(registry, options) == registry

\* timeoutCleanups.delete(options)
Deleted(registry, options) == [registry EXCEPT ![options] = NoCleanup]

\* The head of onResponse: the cleanup found in the registry under the
\* options object is invoked and its entry deleted.
RunCleanup(options) ==
  LET cleanup == timeoutCleanups[options] IN
    IF cleanup # NoCleanup
      THEN /\ timers' = [timers EXCEPT ![cleanup.req][cleanup.timer] =
                                         ClearTimer(@)]
           /\ timeoutCleanups' = Deleted(timeoutCleanups, options)
      ELSE UNCHANGED <<timers, timeoutCleanups>>

\* fetch resolves with resp and onResponse runs: the cleanup found in the
\* registry is invoked and deleted, then a failing response is thrown as a
\* CardSightAIError and any other response returned.
OnResponse(r, resp) ==
  /\ req[r].pc = "inflight"
  /\ ~Aborted(r)
  /\ RunCleanup(OptionsOf(r))
  /\ req' = [req EXCEPT ![r] = [Settle(@, resp) EXCEPT !.responses = 1]]
  /\ UNCHANGED <<env, rev, utils, arg, ctor, ctorError, config, client>>

\* onRequest invoked once more with the options object of call r while r is
\* in flight: another controller and timer, and the registry entry of the
\* options object is overwritten.  The request in flight keeps its signal.
OnRequestAgain(r) ==
  /\ req[r].pc = "inflight"
  /\ ArmsTimer(config)
  /\ Len(timers[r]) < MaxHookCalls
  /\ timers' = [timers EXCEPT ![r] = Append(@, ArmedTimer)]
  /\ timeoutCleanups' = [timeoutCleanups EXCEPT
                           ![OptionsOf(r)] = Cleanup(r, Len(timers[r]) + 1)]
  /\ UNCHANGED <<env, rev, utils, arg, ctor, ctorError, config, client, req>>

\* onResponse invoked once more with the options object of call r after it
\* has run for r.
OnResponseAgain(r) ==
  /\ req[r].pc = "done"
  /\ req[r].responses >= 1
  /\ req[r].responses < MaxHookCalls
  /\ RunCleanup(OptionsOf(r))
  /\ req' = [req EXCEPT ![r] = [@ EXCEPT !.responses = @ + 1]]
  /\ UNCHANGED <<env, rev, utils, arg, ctor, ctorError, config, client>>

\* What reading a returned response's body gives: a Blob of the bytes for
\* parseAs 'blob', the parsed value for JSON, a SyntaxError when the body is
\* not JSON, a failure of the stream when it cannot be read at all.
ParseBody(parseAs, body) ==
  IF body.k = "unreadable"
    THEN [read |-> "failed", data |-> [k |-> "error", name |-> "TypeError"]]
  ELSE IF parseAs = "blob"
    THEN [read |-> "ok", data |-> [k |-> "blob", of |-> body]]
  ELSE IF body.k = "json"
    THEN [read |-> "ok", data |-> [k |-> "json", v |-> body.v]]
    ELSE [read |-> "failed", data |-> [k |-> "error", name |-> "SyntaxError"]]

\* The request library reads the body of the response that onResponse
\* returned, as the call's parseAs tells; an aborted signal cancels the read.
ReadBody(r) ==
  /\ req[r].read = "pending"
  /\ LET p == IF Aborted(r)
                THEN [read |-> "failed",
                      data |-> [k |-> "error", name |-> "AbortError"]]
                ELSE ParseBody(req[r].parseAs, req[r].returned.body)
     IN req' = [req EXCEPT ![r] = [@ EXCEPT !.read = p.read, !.data = p.data]]
  /\ UNCHANGED <<env, rev, utils, arg, ctor, ctorError, config, client, timers, timeoutCleanups>>

(***************************************************************************)
(* utils.ts: helpers over identification results, detections and catalog   *)
(* cards. An optional property is an option; numberedTo holds a JSON       *)
(* number or null.                                                         *)
(***************************************************************************)
\* No helper has been given anything.
NoUtils ==
  [given |-> [k |-> "none"], input |-> [k |-> "none"], fn |-> "none",
   arg |-> "", out |-> ""]

\* confidenceOrder[c] || 0
Score(c) ==
  CASE c = "High" -> 3 [] c = "Medium" -> 2 [] c = "Low" -> 1 [] OTHER -> 0

\* Variant: a detection is put before the detections of equal score.
InsertByScore_BeforeTies(sorted, d) ==
  LET k == Cardinality({i \in DOMAIN sorted :
                          Score(sorted[i].confidence) > Score(d.confidence)})
  IN SubSeq(sorted, 1, k) \o <<d>> \o SubSeq(sorted, k + 1, Len(sorted))

\* One step of the stable sort with comparator bScore - aScore: d, which
\* comes after every element of sorted in the array, goes behind the
\* elements whose score is not smaller.
InsertByScore(sorted, d) ==
  LET k == Cardinality({i \in DOMAIN sorted :
                          Score(sorted[i].confidence) >= Score(d.confidence)})
  IN SubSeq(sorted, 1, k) \o <<d>> \o SubSeq(sorted, k + 1, Len(sorted))

RECURSIVE SortByConfidence(_)
\* [...detections].sort((a, b) => bScore - aScore)
SortByConfidence(ds) ==
  IF ds = << >>
    THEN << >>
    ELSE InsertByScore(SortByConfidence(SubSeq(ds, 1, Len(ds) - 1)),
                       ds[Len(ds)])

getHighestConfidenceDetection(result) ==
  IF result.detections = None \/ Val(result.detections) = << >>
    THEN None
    ELSE Some(Head(SortByConfidence(Val(result.detections))))

\* Variant: the threshold itself is excluded.
filterByConfidence_Above(result, minConfidence) ==
  IF result.detections = None
    THEN << >>
    ELSE LET Test(d) == Score(d.confidence) > Score(minConfidence)
         IN SelectSeq(Val(result.detections), Test)

filterByConfidence(result, minConfidence) ==
  IF result.detections = None
    THEN << >>
    ELSE LET Test(d) == Score(d.confidence) >= Score(minConfidence)
         IN SelectSeq(Val(result.detections), Test)

countByConfidence(result) ==
  [c \in {"High", "Medium", "Low"} |->
     IF result.detections = None
       THEN 0
       ELSE Cardinality({i \in DOMAIN Val(result.detections) :
                           Val(result.detections)[i].confidence = c})]

isExactMatch(detection) == detection.card.id # None

isSetLevelMatch(detection) ==
  detection.card.id = None /\ detection.card.setId # None

getExactMatches(result) ==
  IF result.detections = None
    THEN << >>
    ELSE LET Test(d) == d.card.id # None
         IN SelectSeq(Val(result.detections), Test)

\* Variant: the card of every detection is returned.
getDetectedCards_All(result) ==
  IF result.detections = None
    THEN << >>
    ELSE [i \in DOMAIN Val(result.detections) |->
            Val(result.detections)[i].card]

getDetectedCards(result) ==
  IF result.detections = None
    THEN << >>
    ELSE LET Test(d) == d.card.id # None
             kept    == SelectSeq(Val(result.detections), Test)
         IN [i \in DOMAIN kept |-> kept[i].card]

hasParallel(detection) == detection.card.parallel # None

isNumberedParallel(detection) ==
  /\ detection.card.parallel # None
  /\ TruthyJson(Val(detection.card.parallel).numberedTo)

formatParallelDisplay(detection) ==
  LET parallel == detection.card.parallel IN
    IF parallel = None
      THEN ""
      ELSE IF TruthyJson(Val(parallel).numberedTo)
             THEN Val(parallel).name \o " " \o "/"
                    \o NumToString(Val(Val(parallel).numberedTo).n)
             ELSE Val(parallel).name

getNumberedParallels(card) ==
  IF card.parallels = None
    THEN << >>
    ELSE LET Test(q) == q.numberedTo # None
         IN SelectSeq(Val(card.parallels), Test)

formatCardParallel(parallel) ==
  IF TruthyJson(parallel.numberedTo)
    THEN parallel.name \o " /" \o NumToString(Val(parallel.numberedTo).n)
    ELSE parallel.name

\* A helper is called with the given input and returns out.
Returns(kind, fn, a, out) ==
  /\ utils.input.k = kind
  /\ utils.fn = "none"
  /\ utils' = [utils EXCEPT !.fn = fn, !.arg = a, !.out = out]
  /\ UNCHANGED <<env, rev, arg, ctor, ctorError, config, client, req, timers, timeoutCleanups>>

GetHighestConfidenceDetection ==
  Returns("result", "getHighestConfidenceDetection", "",
          getHighestConfidenceDetection(utils.input.result))

FilterByConfidence(minConfidence) ==
  Returns("result", "filterByConfidence", minConfidence,
          filterByConfidence(utils.input.result, minConfidence))

CountByConfidence ==
  Returns("result", "countByConfidence", "",
          countByConfidence(utils.input.result))

GetExactMatches ==
  Returns("result", "getExactMatches", "", getExactMatches(utils.input.result))

GetDetectedCards ==
  Returns("result", "getDetectedCards", "",
          getDetectedCards(utils.input.result))

IsExactMatch ==
  Returns("detection", "isExactMatch", "", isExactMatch(utils.input.detection))

IsSetLevelMatch ==
  Returns("detection", "isSetLevelMatch", "",
          isSetLevelMatch(utils.input.detection))

HasParallel ==
  Returns("detection", "hasParallel", "", hasParallel(utils.input.detection))

IsNumberedParallel ==
  Returns("detection", "isNumberedParallel", "",
          isNumberedParallel(utils.input.detection))

FormatParallelDisplay ==
  Returns("detection", "formatParallelDisplay", "",
          formatParallelDisplay(utils.input.detection))

GetNumberedParallels ==
  Returns("card", "getNumberedParallels", "",
          getNumberedParallels(utils.input.card))

FormatCardParallel ==
  Returns("parallel", "formatCardParallel", "",
          formatCardParallel(utils.input.parallel))

(***************************************************************************)
(* Inputs.                                                                 *)
(***************************************************************************)
Revs == {"client.ts", "part_000"}

\* process.env.CARDSIGHTAI_API_KEY: unset, empty, or a key.
EnvValues == {None, Some(""), Some("envkey")}

ApiKeyArgs == {None, Some(""), Some("cfgkey")}

TimeoutArgs == {None, Some(0), Some(5000)}

HeaderArgs ==
  {None, Some(Hdr("x-custom", "v")), Some(Hdr("x-api-key", "other")),
   Some(Hdr("content-type", "text/plain"))}

Configs ==
  {[apiKey |-> k, timeout |-> t, headers |-> h] :
     k \in ApiKeyArgs, t \in TimeoutArgs, h \in HeaderArgs}

\* {apiKey: 'k'}, {apiKey: 'k', timeout: 0}, {apiKey: 'k', timeout: 5000}
KeyedConfigs == {c \in Configs : c.apiKey = Some("cfgkey") /\ c.headers = None}

PlainConfig == [apiKey |-> Some("cfgkey"), timeout |-> None, headers |-> None]

\* {}
KeylessConfig == [apiKey |-> None, timeout |-> None, headers |-> None]

\* The request library parses a response as JSON unless told otherwise.
DefaultParseAs == "json"

HealthCheck ==
  [name |-> "health.check", method |-> "GET", path |-> "/health",
   body |-> "none", query |-> None, parseAs |-> DefaultParseAs]

IdentifyCard ==
  [name |-> "identify.card", method |-> "POST", path |-> "/v1/identify/card",
   body |-> "formdata", query |-> None, parseAs |-> DefaultParseAs]

CollectionsCreate ==
  [name |-> "collections.create", method |-> "POST", path |-> "/v1/collection/",
   body |-> "json", query |-> None, parseAs |-> DefaultParseAs]

CollectionsDelete ==
  [name |-> "collections.delete", method |-> "DELETE",
   path |-> "/v1/collection/{collectionId}", body |-> "none",
   query |-> None, parseAs |-> DefaultParseAs]

RawHead ==
  [name |-> "raw.HEAD", method |-> "HEAD", path |-> "/health", body |-> "none",
   query |-> None, parseAs |-> DefaultParseAs]

\* params of images.getCard: undefined, {}, {format: 'raw'}, {format: 'json'}
GetCardParams ==
  {None, Some([format |-> None]), Some([format |-> Some("raw")]),
   Some([format |-> Some("json")])}

\* params?.format
FormatOf(params) == IF params = None THEN None ELSE Val(params).format

\* Variant: the response of images.getCard is always parsed as JSON.
GetCardParseAs_Json(params) == DefaultParseAs

\* if (params?.format === 'raw' || !params?.format) parseAs: 'blob',
\* otherwise the request library's default.
GetCardParseAs(params) ==
  IF FormatOf(params) = Some("raw") \/ ~TruthyStr(FormatOf(params))
    THEN "blob"
    ELSE DefaultParseAs

\* images.getCard(id, params)
ImagesGetCard(params) ==
  [name |-> "images.getCard", method |-> "GET",
   path |-> "/v1/images/cards/{id}", body |-> "none", query |-> params,
   parseAs |-> GetCardParseAs(params)]

GetCardCalls == {ImagesGetCard(params) : params \in GetCardParams}

Endpoints ==
  {HealthCheck, IdentifyCard, CollectionsCreate, CollectionsDelete, RawHead}
    \cup GetCardCalls

JsonBody(v) == [k |-> "json", v |-> v]

TextBody(s) == [k |-> "text", s |-> s]

Unreadable == [k |-> "unreadable"]

\* {} and {"toString": 1}
PlainObject == JObj(NoFields)

OddObject == JObj([n \in {"toString"} |-> JNum(1)])

MessageValues ==
  {JStr(""), JStr("Card not found"), JNum(42), JNull, PlainObject, OddObject}

ErrorValues == {JStr(""), JStr("not_found"), JNum(0), OddObject}

JsonObjects ==
  {JObj(NoFields)}
    \cup {JObj([n \in {"message"} |-> m]) : m \in MessageValues}
    \cup {JObj([n \in {"error"} |-> e]) : e \in ErrorValues}
    \cup {JObj([n \in {"message", "error"} |-> IF n = "message" THEN m ELSE e]) :
            m \in MessageValues, e \in ErrorValues}

Bodies ==
  {JsonBody(v) : v \in JsonObjects \cup {JNull, JStr("oops"), JNum(7)}}
    \cup {TextBody("Service Unavailable"), TextBody(""), Unreadable}

Statuses == {200, 299, 304, 400, 401, 403, 404, 503, 599}

\* The URL a redirect leads to.
Moved == "/v2/moved"

\* response.url is the request's URL, or Moved after a followed redirect.
Redirects == {None, Some(Moved)}

\* A response as fetch resolves with it: body not read.
Response(st, b, rd) ==
  [status |-> st, body |-> b, redirect |-> rd, bodyUsed |-> FALSE]

Responses ==
  {Response(st, b, rd) : st \in Statuses, b \in Bodies, rd \in Redirects}

FewResponses ==
  {Response(200, JsonBody(JObj(NoFields)), None),
   Response(404, JsonBody(JObj([n \in {"message"} |-> JStr("Card not found")])), None),
   Response(401, JsonBody(JObj([n \in {"error"} |-> JStr("Invalid API key")])), Some(Moved)),
   Response(503, TextBody("Service Unavailable"), None)}

(***************************************************************************)
(* Specifications.                                                         *)
(***************************************************************************)
\* card.id and card.setId present, only card.id, only card.setId, neither
MatchCards ==
  {[id |-> i, setId |-> t, parallel |-> None] :
     i \in {None, Some("card-a")}, t \in {None, Some("set-1")}}

Confidences == {"High", "Medium", "Low"}

Detections == {[confidence |-> c, card |-> k] : c \in Confidences, k \in MatchCards}

\* result.detections: undefined or an array
Results ==
  {[detections |-> None]}
    \cup {[detections |-> Some(ds)] :
            ds \in UNION {[1..n -> Detections] : n \in 0..MaxDetections}}

\* numberedTo: undefined, null, 0 or 50
NumberedTos == {None, Some(JNull), Some(JNum(0)), Some(JNum(50))}

\* card.parallel of a detected card
DetectedParallels ==
  {None} \cup {Some([name |-> "Gold Refractor", numberedTo |-> t]) :
                 t \in NumberedTos}

\* Detections for the helpers on one detection.
SingleDetections ==
  Detections
    \cup {[confidence |-> "High",
           card |-> [id |-> Some("card-a"), setId |-> Some("set-1"),
                     parallel |-> q]] : q \in DetectedParallels}

CardParallels ==
  {[name |-> n, numberedTo |-> t] :
     n \in {"Gold Refractor", "Black Prizm"}, t \in NumberedTos}

\* card.parallels of a catalog card: undefined or an array
CatalogCards ==
  {[parallels |-> None]}
    \cup {[parallels |-> Some(ps)] :
            ps \in UNION {[1..n -> CardParallels] : n \in 0..MaxParallels}}

UtilsInputs ==
  {[k |-> "result", result |-> x] : x \in Results}
    \cup {[k |-> "detection", detection |-> x] : x \in SingleDetections}
    \cup {[k |-> "card", card |-> x] : x \in CatalogCards}
    \cup {[k |-> "parallel", parallel |-> x] : x \in CardParallels}

\* A returned and a thrown response.
HookResponses == {resp \in FewResponses : resp.status \in {200, 404}}

InitWith(envs) ==
  /\ env \in envs
  /\ rev \in Revs
  /\ utils = NoUtils
  /\ arg = None
  /\ ctor = "none"
  /\ ctorError = NoError
  /\ config = NoConfig
  /\ client = NoClient
  /\ req = [r \in ReqIds |-> IdleRequest]
  /\ timers = [r \in ReqIds |-> << >>]
  /\ timeoutCleanups = [r \in ReqIds |-> NoCleanup]

\* Concurrent requests, their timers and the transport.
Init == InitWith({None})

Next ==
  \/ \E c \in KeyedConfigs : Construct(c)
  \/ \E r \in ReqIds, e \in {HealthCheck, CollectionsCreate}, b \in BOOLEAN :
       Call(r, e, b)
  \/ \E r \in ReqIds, resp \in FewResponses : OnResponse(r, resp)
  \/ \E r \in ReqIds : \E i \in DOMAIN timers[r] : TimerFire(r, i)
  \/ \E r \in ReqIds : TransportAbort(r)
  \/ \E r \in ReqIds : TransportFail(r)
  \/ \E r \in ReqIds : CollectGarbage(r)
  \/ \E r \in ReqIds : ReadBody(r)

Spec == Init /\ [][Next]_vars

\* The event loop runs a due timer callback, and fetch rejects once its
\* signal is aborted.
FairSpec ==
  /\ Spec
  /\ \A r \in ReqIds : WF_vars(\E i \in DOMAIN timers[r] : TimerFire(r, i))
  /\ \A r \in ReqIds : WF_vars(TransportAbort(r))

\* Construction over every configuration and environment, one request.
InitConfig == InitWith(EnvValues)

NextConfig ==
  \/ \E c \in Configs : Construct(c)
  \/ \E e \in Endpoints, b \in BOOLEAN : Call(1, e, b)
  \/ \E resp \in FewResponses : OnResponse(1, resp)
  \/ ReadBody(1)

SpecConfig == InitConfig /\ [][NextConfig]_vars

\* One request of a plain client answered by every response.
InitErrors == InitWith({None})

NextErrors ==
  \/ \E c \in {PlainConfig, KeylessConfig} : Construct(c)
  \/ \E e \in {CollectionsCreate} \cup GetCardCalls, b \in BOOLEAN : Call(1, e, b)
  \/ \E resp \in Responses : OnResponse(1, resp)
  \/ ReadBody(1)

SpecErrors == InitErrors /\ [][NextErrors]_vars

\* The two hooks invoked in any order with the options objects of the
\* calls, and the timers.
NextHooks ==
  \/ Construct(PlainConfig)
  \/ \E r \in ReqIds : Call(r, HealthCheck, FALSE)
  \/ \E r \in ReqIds : OnRequestAgain(r)
  \/ \E r \in ReqIds, resp \in HookResponses : OnResponse(r, resp)
  \/ \E r \in ReqIds : OnResponseAgain(r)
  \/ \E r \in ReqIds : \E i \in DOMAIN timers[r] : TimerFire(r, i)

SpecHooks == Init /\ [][NextHooks]_vars

\* The helpers of utils.ts applied to every input.
InitUtils ==
  /\ env = None
  /\ rev = "part_000"
  /\ arg = None
  /\ ctor = "none"
  /\ ctorError = NoError
  /\ config = NoConfig
  /\ client = NoClient
  /\ req = [r \in ReqIds |-> IdleRequest]
  /\ timers = [r \in ReqIds |-> << >>]
  /\ timeoutCleanups = [r \in ReqIds |-> NoCleanup]
  /\ \E x \in UtilsInputs : utils = [NoUtils EXCEPT !.given = x, !.input = x]

NextUtils ==
  \/ GetHighestConfidenceDetection
  \/ \E minConfidence \in Confidences : FilterByConfidence(minConfidence)
  \/ CountByConfidence
  \/ GetExactMatches
  \/ GetDetectedCards
  \/ IsExactMatch
  \/ IsSetLevelMatch
  \/ HasParallel
  \/ IsNumberedParallel
  \/ FormatParallelDisplay
  \/ GetNumberedParallels
  \/ FormatCardParallel

SpecUtils == InitUtils /\ [][NextUtils]_vars

(***************************************************************************)
(* Properties.                                                             *)
(***************************************************************************)
Started(r) == req[r].pc # "idle"

Done(r) == req[r].pc = "done"

InFlight(r) == req[r].pc = "inflight"

\* onResponse ran for r.
Answered(r) == Done(r) /\ req[r].response # NoResponse

TimedOut(r) == Done(r) /\ req[r].error.name = "AbortError"

\* C1: once a request has completed (response of any status, transport
\* failure or timeout), every cleanup closure registered for it has been
\* invoked exactly once, the registry holds no entry for its options object
\* and none of its timers is still armed.
C1_CleanupOnEveryExit ==
  \A r \in ReqIds :
    Done(r) =>
      /\ timeoutCleanups[OptionsOf(r)] = NoCleanup
      /\ \A i \in DOMAIN timers[r] :
           timers[r][i].cleanups = 1 /\ timers[r][i].st # "armed"

\* C2: a request in flight always terminates even if the transport never
\* answers; once its timer has fired its signal is aborted and the call
\* rejects with an AbortError, which carries no status, was not produced by
\* onResponse and is not a CardSightAIError.
C2_TimeoutRejectsWithAbort ==
  \A r \in ReqIds :
    /\ InFlight(r) ~> Done(r)
    /\ (InFlight(r) /\ Aborted(r)) ~> TimedOut(r)
    /\ [](TimedOut(r) =>
            /\ req[r].outcome = "rejected"
            /\ Aborted(r)
            /\ req[r].error.name # "CardSightAIError"
            /\ req[r].error.status = None
            /\ ~Answered(r))

C2_Witness ==
  \E r \in ReqIds :
    TimedOut(r) /\ timers[r][req[r].signal].st = "fired" /\ config.timeout = 5000

\* C3: a client constructed with {apiKey: 'k', timeout: 0} arms no timer:
\* its requests have no timer, no registry entry and no abort signal.
C3_ZeroTimeoutArmsNothing ==
  (arg # None /\ Val(arg).timeout = Some(0)) =>
    \A r \in ReqIds :
      /\ timers[r] = << >>
      /\ timeoutCleanups[OptionsOf(r)] = NoCleanup
      /\ req[r].signal = 0

\* C4: when neither config.apiKey nor CARDSIGHTAI_API_KEY holds a non-empty
\* value, construction throws AuthenticationError, no request client is
\* created and no request is ever started.
C4_NoKeyNoClient ==
  (/\ arg # None
   /\ Val(arg).apiKey \in {None, Some("")}
   /\ env \in {None, Some("")}) =>
    /\ ctor = "AuthenticationError"
    /\ ~client.created
    /\ \A r \in ReqIds : ~Started(r) /\ timers[r] = << >>

C4_Witness ==
  /\ ctor = "AuthenticationError"
  /\ arg = Some([apiKey |-> Some(""), timeout |-> None, headers |-> None])
  /\ env = Some("")

\* C5: every request sent carries an X-API-Key header equal to the resolved
\* apiKey, whatever headers the caller configured.
C5_ApiKeyHeaderIsResolvedKey ==
  \A r \in ReqIds :
    Started(r) =>
      /\ HasHeader(req[r].headers, "x-api-key")
      /\ req[r].headers["x-api-key"] = config.apiKey

\* C6: a request with a multipart FormData body, sent by a client whose
\* caller configured no Content-Type header of their own, reaches the
\* transport with the boundary-bearing Content-Type of the body encoder,
\* never with 'application/json': neither the client's default headers nor
\* onRequest set it.
C6_MultipartContentTypeSurvives ==
  \A r \in ReqIds :
    (/\ Started(r)
     /\ req[r].body = "formdata"
     /\ ~HasHeader(config.headers, "content-type")) =>
      /\ HasHeader(req[r].headers, "content-type")
      /\ req[r].headers["content-type"] = MultipartType

C7_Hooked(r) == Started(r) /\ req[r].body # "formdata"

\* C7: for a non-multipart request that is neither GET nor HEAD and has no
\* Content-Type, onRequest adds Content-Type 'application/json' and changes
\* nothing else; a request that already has a Content-Type, or is GET or
\* HEAD, keeps its headers; applying onRequest to its own output changes
\* nothing.
C7_JsonContentTypeDefault ==
  \A r \in ReqIds :
    C7_Hooked(r) =>
      LET q == req[r] IN
        /\ (q.method \notin {"GET", "HEAD"} /\ ~HasHeader(q.input, "content-type")) =>
             /\ DOMAIN q.headers = DOMAIN q.input \cup {"content-type"}
             /\ q.headers["content-type"] = JsonType
             /\ \A n \in DOMAIN q.input : q.headers[n] = q.input[n]
        /\ (q.method \in {"GET", "HEAD"} \/ HasHeader(q.input, "content-type")) =>
             q.headers = q.input
        /\ \A b \in BOOLEAN :
             onRequestHeaders(rev, b /\ q.body = "formdata", q.method, q.headers)
               = q.headers

C7_Witness ==
  \E r \in ReqIds :
    /\ C7_Hooked(r)
    /\ req[r].method = "DELETE"
    /\ ~HasHeader(req[r].input, "content-type")
    /\ req[r].headers["content-type"] = JsonType

\* C8: a response with status in 400..599 makes the endpoint call reject
\* with a CardSightAIError whose status is the response status; the call
\* never resolves for such a response.
C8_ErrorStatusRejects ==
  \A r \in ReqIds :
    (Answered(r) /\ req[r].response.status >= 400 /\ req[r].response.status <= 599) =>
      /\ req[r].outcome = "rejected"
      /\ req[r].error.name = "CardSightAIError"
      /\ req[r].error.status = Some(req[r].response.status)

C8_Witness ==
  \E r \in ReqIds :
    /\ Answered(r) /\ req[r].response.status = 599
    /\ req[r].error.status = Some(599)

\* A failing response whose body parsed as JSON.
C9_Case(r) ==
  Answered(r) /\ req[r].outcome = "rejected" /\ req[r].response.body.k = "json"

\* The message is exactly the given JSON value.
C9_Equals(message, v) == v.t = "str" /\ message = v.s

\* C9 as stated: if the JSON body contains a message field the error's
\* message equals its value, otherwise if it contains an error field the
\* message equals that value, otherwise the message is the generic one.
C9_FieldPresenceSelectsMessage ==
  \A r \in ReqIds :
    C9_Case(r) =>
      LET d == req[r].response.body.v
          m == req[r].error.message
      IN IF Field(d, "message") # None THEN C9_Equals(m, Val(Field(d, "message")))
         ELSE IF Field(d, "error") # None THEN C9_Equals(m, Val(Field(d, "error")))
         ELSE m = "API request failed with status " \o NumToString(req[r].response.status)

\* C9 amended: the fields are selected by truthiness, not presence.  If the
\* body has a truthy message field (non-empty string, non-zero number) the
\* error's message is that value as a string; otherwise if it has a truthy
\* error field the message is that value as a string; otherwise it is the
\* generic 'API request failed with status N'.
C9_TruthyFieldSelectsMessage ==
  \A r \in ReqIds :
    C9_Case(r) =>
      LET d  == req[r].response.body.v
          m  == req[r].error.message
          fm == Field(d, "message")
          fe == Field(d, "error")
          st == req[r].response.status
      IN /\ TruthyJson(fm) =>
              /\ Val(fm).t = "str" => m = Val(fm).s
              /\ Val(fm) = JNum(42) => m = "42"
         /\ (~TruthyJson(fm) /\ TruthyJson(fe)) =>
              (Val(fe).t = "str" => m = Val(fe).s)
         /\ (~TruthyJson(fm) /\ ~TruthyJson(fe)) =>
              /\ m = "API request failed with status " \o NumToString(st)
              /\ st = 404 => m = "API request failed with status 404"

C9_Witness ==
  \E r \in ReqIds :
    /\ C9_Case(r)
    /\ Field(req[r].response.body.v, "message") = Some(JStr(""))
    /\ Field(req[r].response.body.v, "error") = Some(JStr("not_found"))
    /\ req[r].error.message = "not_found"

\* A failing response whose body did not parse as JSON.
C10_Case(r) ==
  Answered(r) /\ req[r].outcome = "rejected" /\ req[r].response.body.k # "json"

\* C10 as stated: for a body that is not JSON but readable as text the
\* error's message equals the text and its response field is undefined; for
\* an unreadable body the message is the generic one.
C10_TextBodyIsMessage ==
  \A r \in ReqIds :
    C10_Case(r) =>
      LET b == req[r].response.body IN
        /\ b.k = "text" =>
             req[r].error.message = b.s /\ req[r].error.response = None
        /\ b.k = "unreadable" =>
             req[r].error.message =
               "API request failed with status " \o NumToString(req[r].response.status)

\* C10 amended: for a body that is not JSON but readable as non-empty text
\* the error's message equals the text; when the text is empty or cannot be
\* read the message is the generic 'API request failed with status N'; in
\* all these cases the error's response field is undefined.
C10_NonEmptyTextIsMessage ==
  \A r \in ReqIds :
    C10_Case(r) =>
      LET b  == req[r].response.body
          st == req[r].response.status
      IN /\ req[r].error.response = None
         /\ (b.k = "text" /\ b.s # "") => req[r].error.message = b.s
         /\ (b.k = "unreadable" \/ (b.k = "text" /\ b.s = "")) =>
              /\ req[r].error.message =
                   "API request failed with status " \o NumToString(st)
              /\ st = 503 => req[r].error.message = "API request failed with status 503"

C10_Witness ==
  \E r \in ReqIds :
    /\ C10_Case(r)
    /\ req[r].response.body = TextBody("Service Unavailable")
    /\ req[r].error.message = "Service Unavailable"
    /\ req[r].error.response = None

\* C11: whatever the body of a failing response (JSON of any shape, text,
\* unreadable), the only thing onResponse throws is the CardSightAIError it
\* constructs.
C11_OnlyCardSightAIErrorThrown ==
  \A r \in ReqIds :
    (Answered(r) /\ (req[r].response.status < 200 \/ req[r].response.status > 299)) =>
      /\ req[r].outcome = "rejected"
      /\ req[r].error.name = "CardSightAIError"

\* The registry keys whose closure clears a timer of request r.
C12_Entries(r) == {k \in ReqIds : timeoutCleanups[k].req = r}

\* C12: two requests of one client never share a controller, timer or
\* registry entry: while a request is in flight its registry entry is the
\* closure over its own timer, and a step of one request (its pre-request
\* hook, its response, its transport failure or abort, its timer firing)
\* leaves the timers, the abort signal and the registry entries of every
\* other request as they were.
C12_RequestsIndependent ==
  /\ [](\A r \in ReqIds :
          (InFlight(r) /\ req[r].signal # 0) =>
             timeoutCleanups[r] = Cleanup(r, req[r].signal))
  /\ [][\A r, s \in ReqIds :
          (r # s /\ (req'[s] # req[s] \/ timers'[s] # timers[s])) =>
            /\ req'[r] = req[r]
            /\ timers'[r] = timers[r]
            /\ {k \in ReqIds : timeoutCleanups'[k].req = r} = C12_Entries(r)]_vars

\* Two requests were in flight together, one timed out, the other was
\* answered and cleaned up.
C12_Witness ==
  /\ TimedOut(1)
  /\ timers[1][1].st = "fired"
  /\ Answered(2)
  /\ timers[2][1] = [st |-> "cleared", cleanups |-> 1]
  /\ timeoutCleanups[1] = Cleanup(1, 1)

\* C13: an exception thrown by the transport while a request is in flight
\* (network failure, timeout abort) is what the caller of the endpoint
\* method catches, unchanged: not a CardSightAIError, not a resolved result,
\* and onResponse has not run.
C13_TransportErrorPassesThrough ==
  \A r \in ReqIds :
    (Done(r) /\ req[r].thrown # NoError) =>
      /\ req[r].outcome = "rejected"
      /\ req[r].error = req[r].thrown
      /\ req[r].error.name \in {"TypeError", "AbortError"}
      /\ req[r].error.status = None
      /\ ~Answered(r)

C13_Witness ==
  \E r \in ReqIds :
    /\ Done(r)
    /\ req[r].thrown = NetworkError
    /\ req[r].error = NetworkError
    /\ req[r].outcome = "rejected"

\* C14: a non-empty config.apiKey is the key the client uses whatever
\* CARDSIGHTAI_API_KEY holds, and with config.apiKey absent a non-empty
\* environment value is used and construction succeeds.
C14_ApiKeyResolution ==
  arg # None =>
    LET k == Val(arg).apiKey IN
      /\ k \notin {None, Some("")} =>
           ctor = "ok" /\ client.created /\ config.apiKey = Val(k)
      /\ (k = None /\ env \notin {None, Some("")}) =>
           ctor = "ok" /\ client.created /\ config.apiKey = Val(env)

C14_Witness ==
  /\ arg # None
  /\ Val(arg).apiKey = Some("cfgkey")
  /\ env = Some("envkey")
  /\ ctor = "ok"
  /\ config.apiKey = "cfgkey"

C16_SuccessReturnedUnchanged ==
  \A r \in ReqIds :
    (Answered(r) /\ req[r].response.status >= 200 /\ req[r].response.status <= 299) =>
      /\ req[r].outcome = "resolved"
      /\ req[r].error = NoError
      /\ req[r].returned = req[r].response
      /\ ~req[r].returned.bodyUsed

C16_Witness ==
  \E r \in ReqIds :
    /\ Answered(r)
    /\ req[r].response.status = 299
    /\ req[r].response.body = TextBody("Service Unavailable")
    /\ req[r].returned = req[r].response
    /\ req[r].outcome = "resolved"

\* C17: no retries: for every endpoint method call, however it ends, the
\* transport function has been invoked at most once (exactly once for a
\* call that was made).
C17_NoRetries ==
  \A r \in ReqIds :
    /\ req[r].fetches <= 1
    /\ Started(r) => req[r].fetches = 1

C17_Witness ==
  /\ Done(1) /\ req[1].error = NetworkError /\ req[1].fetches = 1
  /\ Done(2) /\ req[2].outcome = "rejected" /\ Answered(2) /\ req[2].fetches = 1

\* C18: construction, successful or failing, invokes the transport zero
\* times and arms no timer, and the transport is first invoked by an
\* endpoint method call on a constructed client.
C18_ConstructionIsQuiet ==
  /\ []((\A r \in ReqIds : ~Started(r)) =>
          \A r \in ReqIds : /\ req[r].fetches = 0
                            /\ timers[r] = << >>
                            /\ timeoutCleanups[r] = NoCleanup)
  /\ [][(ctor = "none" /\ ctor' # "none") =>
          /\ req' = req
          /\ timers' = timers
          /\ timeoutCleanups' = timeoutCleanups]_vars
  /\ [][\A r \in ReqIds :
          req'[r].fetches > req[r].fetches =>
            /\ ctor = "ok"
            /\ req[r].pc = "idle"
            /\ req'[r].pc = "inflight"]_vars

C18_Witness ==
  /\ ctor = "ok"
  /\ client.created
  /\ \A r \in ReqIds : ~Started(r) /\ req[r].fetches = 0 /\ timers[r] = << >>

\* C19: every CardSightAIError thrown by onResponse carries the status of
\* the response, the parsed body when the body was valid JSON and nothing
\* otherwise, and a request snapshot with the url, method and headers of
\* the request that was sent.
C19_ErrorCarriesRequestSnapshot ==
  \A r \in ReqIds :
    (Answered(r) /\ req[r].error.name = "CardSightAIError") =>
      /\ req[r].error.status = Some(req[r].response.status)
      /\ req[r].error.response =
           IF req[r].response.body.k = "json"
             THEN Some(req[r].response.body.v)
             ELSE None
      /\ req[r].error.request = Some([url     |-> req[r].url,
                                      method  |-> req[r].method,
                                      headers |-> req[r].headers])

\* C20: AuthenticationError is thrown by construction only, when no
\* credential resolves, and has no status; no endpoint call rejects with
\* it, and a 401 or 403 response rejects with a CardSightAIError carrying
\* that status.
C20_AuthenticationErrorOnlyAtConstruction ==
  /\ ctorError # NoError =>
       /\ ctorError.name = "AuthenticationError"
       /\ ctorError.status = None
       /\ ctor = "AuthenticationError"
       /\ Val(arg).apiKey \in {None, Some("")}
       /\ env \in {None, Some("")}
  /\ \A r \in ReqIds :
       /\ req[r].error.name # "AuthenticationError"
       /\ (Answered(r) /\ req[r].response.status \in {401, 403}) =>
            /\ req[r].outcome = "rejected"
            /\ req[r].error.name = "CardSightAIError"
            /\ req[r].error.status = Some(req[r].response.status)

\* The body of the response returned for r has been read.
C21_Read(r) == req[r].read \in {"ok", "failed"}

\* C21: images.getCard issues exactly one GET to /v1/images/cards/{id} with
\* the given params as query; with format 'raw' or no format the body is
\* returned as a blob and no JSON parsing is attempted, with format 'json'
\* the body is parsed as JSON.
C21_GetCardParsing ==
  \A r \in ReqIds :
    (Started(r) /\ req[r].endpoint = "images.getCard") =>
      LET q == req[r]
          format == FormatOf(q.query)
      IN /\ q.method = "GET"
         /\ q.url = "/v1/images/cards/{id}"
         /\ q.query \in GetCardParams
         /\ q.fetches = 1
         /\ format \in {None, Some("raw")} =>
              /\ q.parseAs = "blob"
              /\ q.data.k \notin {"json"}
              /\ ~(q.data.k = "error" /\ q.data.name = "SyntaxError")
              /\ (C21_Read(r) /\ q.response.body.k # "unreadable") =>
                   q.read = "ok" /\ q.data = [k |-> "blob", of |-> q.response.body]
         /\ format = Some("json") =>
              /\ q.parseAs = "json"
              /\ q.data.k # "blob"
              /\ (C21_Read(r) /\ q.response.body.k = "json") =>
                   q.read = "ok" /\ q.data = [k |-> "json", v |-> q.response.body.v]
              /\ (C21_Read(r) /\ q.response.body.k = "text") =>
                   q.read = "failed" /\ q.data.name = "SyntaxError"

C21_Witness ==
  \E r \in ReqIds :
    /\ req[r].endpoint = "images.getCard"
    /\ req[r].query = None
    /\ req[r].response.status = 200
    /\ req[r].response.body = TextBody("Service Unavailable")
    /\ req[r].read = "ok"
    /\ req[r].data = [k |-> "blob", of |-> TextBody("Service Unavailable")]
    /\ req[r].fetches = 1

\* The confidence rank the helpers are described by: High > Medium > Low.
Rank(d) == CASE d.confidence = "High" -> 3
             [] d.confidence = "Medium" -> 2
             [] d.confidence = "Low" -> 1

\* The detections of a result, none when the array is absent.
DetectionsOf(result) ==
  IF result.detections = None THEN << >> ELSE Val(result.detections)

\* C22: getHighestConfidenceDetection returns undefined exactly when the
\* result has no detections, and otherwise the earliest detection whose
\* rank is at least that of every other; the detections of the input stay
\* in their original order.
C22_HighestConfidence ==
  utils.fn = "getHighestConfidenceDetection" =>
    LET ds == DetectionsOf(utils.given.result) IN
      /\ utils.out = None <=> ds = << >>
      /\ utils.out # None =>
           \E i \in DOMAIN ds :
             /\ Val(utils.out) = ds[i]
             /\ \A j \in DOMAIN ds : Rank(ds[j]) <= Rank(ds[i])
             /\ \A j \in 1..(i - 1) : Rank(ds[j]) < Rank(ds[i])
      /\ utils.input = utils.given

C22_Witness ==
  /\ utils.fn = "getHighestConfidenceDetection"
  /\ LET ds == DetectionsOf(utils.given.result) IN
       /\ Len(ds) = 2
       /\ ds[1].confidence = "High"
       /\ ds[2].confidence = "High"
       /\ ds[1] # ds[2]
       /\ utils.out = Some(ds[1])

\* Whether a consists of the elements of b at the indices in keep, in the
\* order of b.
IsSelection(a, b, keep) ==
  /\ Len(a) = Cardinality(keep)
  /\ \E f \in [DOMAIN a -> DOMAIN b] :
       /\ \A i, j \in DOMAIN a : i < j => f[i] < f[j]
       /\ {f[i] : i \in DOMAIN a} = keep
       /\ \A i \in DOMAIN a : a[i] = b[f[i]]

IsSubsequence(a, b) == \E keep \in SUBSET DOMAIN b : IsSelection(a, b, keep)

\* The rank of a confidence level.
RankOf(level) == Rank([confidence |-> level])

\* C23: filterByConfidence(result, min) is exactly the detections of rank
\* at least that of min, in their original order; the High selection is a
\* subsequence of the Medium one, which is a subsequence of the Low one, and
\* the length of a selection is the sum of countByConfidence over the
\* levels at or above its threshold.
C23_FilterByConfidence ==
  utils.fn = "filterByConfidence" =>
    LET result == utils.given.result
        ds     == DetectionsOf(result)
        counts == countByConfidence(result)
    IN /\ IsSelection(utils.out, ds,
                      {i \in DOMAIN ds : Rank(ds[i]) >= RankOf(utils.arg)})
       /\ IsSubsequence(filterByConfidence(result, "High"),
                        filterByConfidence(result, "Medium"))
       /\ IsSubsequence(filterByConfidence(result, "Medium"),
                        filterByConfidence(result, "Low"))
       /\ Len(utils.out) =
            (IF RankOf(utils.arg) <= 3 THEN counts["High"] ELSE 0)
              + (IF RankOf(utils.arg) <= 2 THEN counts["Medium"] ELSE 0)
              + (IF RankOf(utils.arg) <= 1 THEN counts["Low"] ELSE 0)
       /\ utils.input = utils.given

C23_Witness ==
  /\ utils.fn = "filterByConfidence"
  /\ utils.arg = "Medium"
  /\ LET ds == DetectionsOf(utils.given.result) IN
       /\ Len(ds) = 2
       /\ ds[1].confidence = "Low"
       /\ ds[2].confidence = "Medium"
       /\ utils.out = <<ds[2]>>

HasNumberSuffix(str) ==
  \E name \in {q.name : q \in CardParallels},
     t \in {t \in NumberedTos : t # None /\ t # Some(JNull)} :
    str = name \o " /" \o NumToString(Val(t).n)

\* Whether parallel p is among those getNumberedParallels returns for card.
IsReturnedNumbered(p, card) ==
  \E i \in DOMAIN getNumberedParallels(card) :
    getNumberedParallels(card)[i] = p

\* C30: a catalog parallel is returned by getNumberedParallels exactly when
\* formatCardParallel gives it a /N suffix; isNumberedParallel holds of a
\* detection exactly when formatParallelDisplay has a /N suffix; and
\* formatParallelDisplay is empty exactly when hasParallel is false.
C30_NumberedParallelsAgree ==
  /\ utils.fn = "formatCardParallel" =>
       LET p == utils.given.parallel IN
         HasNumberSuffix(utils.out)
           <=> IsReturnedNumbered(p, [parallels |-> Some(<<p>>)])
  /\ utils.fn = "getNumberedParallels" =>
       LET ps == IF utils.given.card.parallels = None
                   THEN << >>
                   ELSE Val(utils.given.card.parallels)
       IN \A i \in DOMAIN ps :
            (\E k \in DOMAIN utils.out : utils.out[k] = ps[i])
              <=> HasNumberSuffix(formatCardParallel(ps[i]))
  /\ utils.fn = "isNumberedParallel" =>
       (utils.out <=> HasNumberSuffix(formatParallelDisplay(utils.given.detection)))
  /\ utils.fn = "formatParallelDisplay" =>
       /\ HasNumberSuffix(utils.out) <=> isNumberedParallel(utils.given.detection)
       /\ utils.out = "" <=> ~hasParallel(utils.given.detection)

\* C25: the first onResponse for a request invokes the cleanup closure of
\* its options object and removes the entry; a further onResponse with the
\* same options object finds no entry and clears nothing, and no closure
\* ever runs more than once.
C25_CleanupNotReentrant ==
  /\ [](\A r \in ReqIds : \A i \in DOMAIN timers[r] : timers[r][i].cleanups <= 1)
  /\ [](\A r \in ReqIds : Answered(r) => timeoutCleanups[OptionsOf(r)] = NoCleanup)
  /\ [][\A r \in ReqIds :
          (InFlight(r) /\ req'[r].responses = 1) =>
            LET cleanup == timeoutCleanups[OptionsOf(r)] IN
              cleanup # NoCleanup =>
                timers'[cleanup.req][cleanup.timer].cleanups = 1]_vars
  /\ [][\A r \in ReqIds :
          (Answered(r) /\ req'[r].responses > req[r].responses) =>
            /\ timers' = timers
            /\ timeoutCleanups' = timeoutCleanups]_vars

C25_Witness ==
  \E r \in ReqIds :
    /\ Answered(r)
    /\ req[r].responses = 2
    /\ timers[r][req[r].signal] = [st |-> "cleared", cleanups |-> 1]
    /\ timeoutCleanups[OptionsOf(r)] = NoCleanup

\* C26: the registry holds at most one entry per request in flight, and
\* every armed timer is cleared by exactly one registry entry, whatever the
\* sequence of hook invocations.
C26_ArmedTimersHaveOneEntry ==
  \A r \in ReqIds :
    /\ InFlight(r) => Cardinality(C12_Entries(r)) <= 1
    /\ \A i \in DOMAIN timers[r] :
         timers[r][i].st = "armed" =>
           Cardinality({k \in ReqIds : timeoutCleanups[k] = Cleanup(r, i)}) = 1

\* C27: once onResponse has run for a request, whatever the status, the
\* request's timer does not fire and its signal is not aborted, so the read
\* of the body that follows the hook is never cancelled by the timeout.
C27_NoTimeoutAfterResponse ==
  /\ [](\A r \in ReqIds :
          Answered(r) =>
            /\ ~Aborted(r)
            /\ \A i \in DOMAIN timers[r] : timers[r][i].st = "cleared"
            /\ ~(req[r].read = "failed" /\ req[r].data.name = "AbortError"))
  /\ [][\A r \in ReqIds :
          Answered(r) =>
            \A i \in DOMAIN timers[r] : timers'[r][i] = timers[r][i]]_vars

C27_Witness ==
  \E r \in ReqIds :
    /\ Answered(r)
    /\ req[r].response.status = 200
    /\ req[r].read = "ok"
    /\ timers[r][req[r].signal] = [st |-> "cleared", cleanups |-> 1]

\* C28: onResponse decides by response.ok alone: every status outside
\* 200-299 that reaches the hook, 304 included, makes it throw a
\* CardSightAIError with that status, and every status inside 200-299 makes
\* it return the response.
C28_OkFlagDecides ==
  \A r \in ReqIds :
    Answered(r) =>
      IF req[r].response.status >= 200 /\ req[r].response.status <= 299
        THEN /\ req[r].outcome = "resolved"
             /\ req[r].returned = req[r].response
        ELSE /\ req[r].outcome = "rejected"
             /\ req[r].returned = NoResponse
             /\ req[r].error.name = "CardSightAIError"
             /\ req[r].error.status = Some(req[r].response.status)

\* C29: the request snapshot of every CardSightAIError thrown by onResponse
\* holds all headers of the request sent, unfiltered, and among them
\* X-API-Key with the API key of the client.
C29_SnapshotHoldsApiKey ==
  \A r \in ReqIds :
    (Answered(r) /\ req[r].error.name = "CardSightAIError") =>
      LET headers == Val(req[r].error.request).headers IN
        /\ headers = req[r].headers
        /\ HasHeader(headers, "x-api-key")
        /\ headers["x-api-key"] = config.apiKey

====
